---- MODULE Spec2Model ----
(***************************************************************************)
(* Model of examples/python_client.py: an interactive MQTT client for the  *)
(* Fossibot bridge.  Two threads share one paho client object: the main    *)
(* thread (connect, menu loop, cleanup) and the network loop thread that   *)
(* client.loop_start() creates and that runs on_connect / on_message.      *)
(* Calls on the client (subscribe, publish, disconnect) are recorded in    *)
(* the order they are made.                                                *)
(***************************************************************************)
EXTENDS Integers, Sequences, FiniteSets, TLC

\* ---------------------------------------------------------------- bounds
MaxInputs == 2
MaxConnacks == 2
MaxMessages == 2
MaxInterrupts == 2

\* ------------------------------------------------------------- constants
DEVICE_MAC == "7C2C67AB5F0E"
QOS == 1
MinAmperes == 1
MaxAmperes == 20

\* A topic is the sequence of its "/"-separated levels.
StateTopic == <<"fossibot", DEVICE_MAC, "state">>
AvailabilityTopic == <<"fossibot", DEVICE_MAC, "availability">>
BridgeStatusTopic == <<"fossibot", "bridge", "status">>
CommandTopic == <<"fossibot", DEVICE_MAC, "command">>

\* topic.endswith("/" + level)
EndsWith(topic, level) == Len(topic) >= 2 /\ topic[Len(topic)] = level

\* ------------------------------------------------------------------ JSON
JStr(s) == [t |-> "str", s |-> s, n |-> 0]
JInt(n) == [t |-> "int", s |-> "", n |-> n]
JBool(b) == [t |-> "bool", s |-> "", n |-> IF b THEN 1 ELSE 0]

\* Python truth value of a decoded JSON value.
Truthy(v) == IF v.t = "str" THEN v.s # "" ELSE v.n # 0

\* json.dumps(dict): the payload is a JSON document holding the dict.
JsonDumps(obj) == [json |-> TRUE, obj |-> obj]

\* A payload that is no JSON document.
RawPayload(text) == [json |-> FALSE, obj |-> [raw |-> JStr(text)]]

\* json.loads(payload): the object, or JSONDecodeError.
JsonLoads(p) == IF p.json THEN [ok |-> TRUE, obj |-> p.obj]
                ELSE [ok |-> FALSE, obj |-> p.obj]

\* msg.payload.decode()
Decode(p) == IF p.json THEN "<json>" ELSE p.obj.raw.s

\* ------------------------------------------------------- operator's lines
\* A line of input is the sequence of its characters.
Lines == { <<"1">>, <<"2">>, <<"3">>, <<"q">>, <<"Q">>, <<"x">>,
           <<" ", "1">>, <<"0">>, <<"2", "0">>, <<"2", "1">>, <<"-", "5">> }

IsSpace(c) == c = " "

RECURSIVE LStrip(_)
LStrip(s) == IF s # <<>> /\ IsSpace(Head(s)) THEN LStrip(Tail(s)) ELSE s

RECURSIVE RStrip(_)
RStrip(s) == IF s # <<>> /\ IsSpace(s[Len(s)])
             THEN RStrip(SubSeq(s, 1, Len(s) - 1)) ELSE s

\* str.strip()
Strip(s) == RStrip(LStrip(s))

LowerChar(c) == IF c = "Q" THEN "q" ELSE IF c = "X" THEN "x" ELSE c

\* str.lower()
Lower(s) == [i \in 1..Len(s) |-> LowerChar(s[i])]

Digits == {"0", "1", "2", "3", "4", "5", "6", "7", "8", "9"}

DigitValue(c) == CASE c = "0" -> 0 [] c = "1" -> 1 [] c = "2" -> 2
                   [] c = "3" -> 3 [] c = "4" -> 4 [] c = "5" -> 5
                   [] c = "6" -> 6 [] c = "7" -> 7 [] c = "8" -> 8
                   [] c = "9" -> 9

RECURSIVE DigitsValue(_)
DigitsValue(s) == IF s = <<>> THEN 0
                  ELSE 10 * DigitsValue(SubSeq(s, 1, Len(s) - 1))
                       + DigitValue(s[Len(s)])

AllDigits(s) == s # <<>> /\ \A i \in 1..Len(s) : s[i] \in Digits

\* int(line): surrounding blanks dropped, an optional sign, decimal digits;
\* anything else raises ValueError.
ParseInt(line) ==
    LET s == Strip(line)
        signed == s # <<>> /\ Head(s) \in {"-", "+"}
        body == IF signed THEN Tail(s) ELSE s
    IN IF AllDigits(body)
       THEN [ok |-> TRUE,
             val |-> IF signed /\ Head(s) = "-" THEN 0 - DigitsValue(body)
                     ELSE DigitsValue(body)]
       ELSE [ok |-> FALSE, val |-> 0]

\* ------------------------------------------------------ inbound messages
ValidState == [soc |-> JInt(87), usbOutput |-> JBool(TRUE),
               acOutput |-> JBool(FALSE), timestamp |-> JStr("T")]

Messages == {
    [topic |-> StateTopic, payload |-> JsonDumps(ValidState)],
    [topic |-> StateTopic, payload |-> RawPayload("not json")],
    [topic |-> AvailabilityTopic, payload |-> RawPayload("online")],
    [topic |-> BridgeStatusTopic,
     payload |-> JsonDumps([status |-> JStr("running"), version |-> JStr("2.0")])],
    [topic |-> BridgeStatusTopic, payload |-> RawPayload("not json")] }

NoMsg == [topic |-> <<>>, payload |-> RawPayload("")]

NoRender == [kind |-> "none", battery |-> 0, usb |-> "", ac |-> "",
             time |-> "", status |-> "", version |-> ""]

OnOff(v) == IF Truthy(v) THEN "ON" ELSE "OFF"

StateKeys == {"soc", "usbOutput", "acOutput", "timestamp"}
StatusKeys == {"status", "version"}

\* on_message(client, userdata, msg): what it prints, or that it raised.
on_message(msg) ==
    IF EndsWith(msg.topic, "state")
    THEN LET r == JsonLoads(msg.payload)
         IN IF r.ok /\ StateKeys \subseteq DOMAIN r.obj
            THEN [raised |-> FALSE,
                  shown |-> [NoRender EXCEPT !.kind = "state",
                                !.battery = r.obj.soc.n,
                                !.usb = OnOff(r.obj.usbOutput),
                                !.ac = OnOff(r.obj.acOutput),
                                !.time = r.obj.timestamp.s]]
            ELSE [raised |-> TRUE, shown |-> NoRender]
    ELSE IF EndsWith(msg.topic, "availability")
    THEN [raised |-> FALSE,
          shown |-> [NoRender EXCEPT !.kind = "availability",
                                     !.status = Decode(msg.payload)]]
    ELSE IF msg.topic = BridgeStatusTopic
    THEN LET r == JsonLoads(msg.payload)
         IN IF r.ok /\ StatusKeys \subseteq DOMAIN r.obj
            THEN [raised |-> FALSE,
                  shown |-> [NoRender EXCEPT !.kind = "bridge",
                                !.status = r.obj.status.s,
                                !.version = r.obj.version.s]]
            ELSE [raised |-> TRUE, shown |-> NoRender]
    ELSE [raised |-> FALSE, shown |-> NoRender]

\* ------------------------------------------------------------- commands
Publish(payload) == [topic |-> CommandTopic, payload |-> payload, qos |-> QOS]

UsbOnCommand == [action |-> JStr("usb_on")]
\* A copy of turn_usb_on left unedited.
UsbOffCommand_SendsOn == [action |-> JStr("usb_on")]

UsbOffCommand == [action |-> JStr("usb_off")]
ChargingCommand(amperes) ==
    [action |-> JStr("set_charging_current"), amperes |-> JInt(amperes)]

\* The lower bound off by one: 0 <= amperes <= 20.
InRange_AcceptsZero(amperes) == 0 <= amperes /\ amperes <= MaxAmperes

\* The upper bound exclusive: 1 <= amperes < 20.
InRange_ExclusiveUpper(amperes) == MinAmperes <= amperes /\ amperes < MaxAmperes

\* 1 <= amperes <= 20
InRange(amperes) == MinAmperes <= amperes /\ amperes <= MaxAmperes

\* ------------------------------------------------------------------ state
VARIABLES
    pc,             \* main thread: where it stands
    exc,            \* the exception the main thread is unwinding with
    conn,           \* the broker connection
    bg,             \* network loop thread: where it stands
    terminate,      \* loop_stop() has asked the loop thread to end
    connacks,       \* CONNACKs received so far
    firstRc,        \* result code of the first CONNACK (-1: none yet)
    lastRc,         \* result code on_connect is running with
    subscribeCalls, \* client.subscribe calls, in order
    subscribed,     \* topics the broker holds a subscription for
    delivered,      \* messages handed to on_message so far
    rendered,       \* what on_message printed last
    crashMsg,       \* the message whose handling ended the loop thread
    publishes,      \* client.publish calls, in order
    out,            \* what the main thread printed, in order
    inputs,         \* lines read so far
    lastCall,       \* the command function called last
    interrupts,     \* interrupt signals delivered so far
    intAt,          \* where the main thread stood at the first interrupt
    disconnects     \* client.disconnect calls so far

vars == <<pc, exc, conn, bg, terminate, connacks, firstRc, lastRc,
          subscribeCalls, subscribed, delivered, rendered, crashMsg,
          publishes, out, inputs, lastCall, interrupts, intAt,
          disconnects>>

mainVars == <<pc, exc, publishes, out, inputs, lastCall,
              interrupts, intAt, disconnects>>
bgVars == <<bg, connacks, firstRc, lastRc, subscribeCalls, subscribed,
            delivered, rendered, crashMsg>>

Rcs == {0, 5}

StartupPcs == {"connect", "loop_start", "banner"}
LoopPcs == {"menu", "prompt", "amperes"}
PromptPcs == {"prompt", "amperes"}
FinallyPcs == {"loop_stop", "join", "disconnect", "print_disconnected"}
OnConnectPcs == {"sub_state", "sub_availability", "sub_bridge"}

NoCall == [n |-> 0, fn |-> "none", amperes |-> 0]

Init ==
    /\ pc = "connect"
    /\ exc = "none"
    /\ conn = "none"
    /\ bg = "notstarted"
    /\ terminate = FALSE
    /\ connacks = 0
    /\ firstRc = -1
    /\ lastRc = -1
    /\ subscribeCalls = <<>>
    /\ subscribed = {}
    /\ delivered = 0
    /\ rendered = NoRender
    /\ crashMsg = NoMsg
    /\ publishes = <<>>
    /\ out = <<>>
    /\ inputs = 0
    /\ lastCall = NoCall
    /\ interrupts = 0
    /\ intAt = "none"
    /\ disconnects = 0

\* ------------------------------------------------------------ main thread
\* client.connect(MQTT_BROKER, MQTT_PORT, 60): the socket is opened and
\* CONNECT is sent, or the call raises and the script ends there.
Connect ==
    /\ pc = "connect"
    /\ \/ /\ conn' = "pending"
          /\ pc' = "loop_start"
          /\ exc' = exc
       \/ /\ conn' = conn
          /\ pc' = "done"
          /\ exc' = "OSError"
    /\ UNCHANGED <<terminate, bgVars, publishes, out, inputs, lastCall, interrupts, intAt, disconnects>>

\* client.loop_start(): the network loop thread starts.
LoopStart ==
    /\ pc = "loop_start"
    /\ bg' = "idle"
    /\ pc' = "banner"
    /\ UNCHANGED <<exc, conn, terminate, connacks, firstRc, lastRc,
                   subscribeCalls, subscribed, delivered, rendered, crashMsg,
                   publishes, out, inputs, lastCall, interrupts,
                   intAt, disconnects>>

\* The banner is printed and the try block is entered.
Banner ==
    /\ pc = "banner"
    /\ pc' = "menu"
    /\ UNCHANGED <<exc, conn, terminate, bgVars, publishes, out, inputs,
                   lastCall, interrupts, intAt, disconnects>>

\* The menu is printed; the thread then waits in input("Enter command: ").
Menu ==
    /\ pc = "menu"
    /\ pc' = "prompt"
    /\ UNCHANGED <<exc, conn, terminate, bgVars, publishes, out, inputs,
                   lastCall, interrupts, intAt, disconnects>>

Called(fn, amperes) == [n |-> lastCall.n + 1, fn |-> fn, amperes |-> amperes]

\* turn_usb_on()
turn_usb_on ==
    /\ publishes' = Append(publishes, Publish(JsonDumps(UsbOnCommand)))
    /\ out' = Append(out, "sent_usb_on")
    /\ lastCall' = Called("turn_usb_on", 0)

\* turn_usb_off()
turn_usb_off ==
    /\ publishes' = Append(publishes, Publish(JsonDumps(UsbOffCommand)))
    /\ out' = Append(out, "sent_usb_off")
    /\ lastCall' = Called("turn_usb_off", 0)

\* set_charging_current(amperes)
set_charging_current(amperes) ==
    /\ lastCall' = Called("set_charging_current", amperes)
    /\ IF ~InRange(amperes)
       THEN /\ out' = Append(out, "error_range")
            /\ publishes' = publishes
       ELSE /\ publishes' = Append(publishes,
                                   Publish(JsonDumps(ChargingCommand(amperes))))
            /\ out' = Append(out, "sent_charging_current")

\* choice = input("\nEnter command: ").strip() and the branch on it.
ReadChoice ==
    /\ pc = "prompt"
    /\ inputs < MaxInputs
    /\ \E line \in Lines :
         LET choice == Strip(line)
         IN IF choice = <<"1">>
               THEN turn_usb_on /\ pc' = "menu"
               ELSE IF choice = <<"2">>
               THEN turn_usb_off /\ pc' = "menu"
               ELSE IF choice = <<"3">>
               THEN pc' = "amperes" /\ UNCHANGED <<publishes, out, lastCall>>
               ELSE IF Lower(choice) = <<"q">>
               THEN pc' = "loop_stop" /\ UNCHANGED <<publishes, out, lastCall>>
               ELSE /\ out' = Append(out, "invalid")
                    /\ pc' = "menu"
                    /\ UNCHANGED <<publishes, lastCall>>
    /\ inputs' = inputs + 1
    /\ UNCHANGED <<exc, conn, terminate, bgVars, interrupts, intAt,
                   disconnects>>

\* amperes = int(input("Enter amperes (1-20): ")) and the call.  A line
\* int() rejects raises ValueError, which no except clause catches.
ReadAmperes ==
    /\ pc = "amperes"
    /\ inputs < MaxInputs
    /\ \E line \in Lines :
         LET r == ParseInt(line)
         IN IF r.ok
               THEN set_charging_current(r.val) /\ pc' = "menu" /\ exc' = exc
               ELSE /\ pc' = "loop_stop"
                    /\ exc' = "ValueError"
                    /\ UNCHANGED <<publishes, out, lastCall>>
    /\ inputs' = inputs + 1
    /\ UNCHANGED <<conn, terminate, bgVars, interrupts, intAt, disconnects>>

\* SIGINT: KeyboardInterrupt is raised in the main thread wherever it
\* stands.  Outside the try block nothing catches it; inside the body the
\* except clause does; in the except clause or the finally block it
\* propagates (from the except clause through the finally block).
Interrupt ==
    /\ pc # "done"
    /\ interrupts < MaxInterrupts
    /\ interrupts' = interrupts + 1
    /\ intAt' = IF interrupts = 0 THEN pc ELSE intAt
    /\ \/ /\ pc \in StartupPcs \cup FinallyPcs
          /\ pc' = "done"
          /\ exc' = "KeyboardInterrupt"
       \/ /\ pc \in LoopPcs
          /\ pc' = "except"
          /\ exc' = exc
       \/ /\ pc = "except"
          /\ pc' = "loop_stop"
          /\ exc' = "KeyboardInterrupt"
    /\ UNCHANGED <<conn, terminate, bgVars, publishes, out, inputs, lastCall, disconnects>>

\* except KeyboardInterrupt: print("\n\nShutting down...")
ExceptHandler ==
    /\ pc = "except"
    /\ out' = Append(out, "shutting_down")
    /\ pc' = "loop_stop"
    /\ UNCHANGED <<exc, conn, terminate, bgVars, publishes, inputs, lastCall, interrupts, intAt, disconnects>>

\* client.loop_stop(): asks the loop thread to end ...
LoopStop ==
    /\ pc = "loop_stop"
    /\ terminate' = TRUE
    /\ pc' = "join"
    /\ UNCHANGED <<exc, conn, bgVars, publishes, out, inputs, lastCall, interrupts, intAt, disconnects>>

\* loop_stop() returning without joining the loop thread.
LoopThreadEnded_NoJoin == TRUE

LoopThreadEnded == bg \in {"stopped", "crashed"}

\* ... and joins it.
Join ==
    /\ pc = "join"
    /\ LoopThreadEnded
    /\ pc' = "disconnect"
    /\ UNCHANGED <<exc, conn, terminate, bgVars, publishes, out, inputs,
                   lastCall, interrupts, intAt, disconnects>>

\* client.disconnect()
Disconnect ==
    /\ pc = "disconnect"
    /\ disconnects' = disconnects + 1
    /\ conn' = "closed"
    /\ pc' = "print_disconnected"
    /\ UNCHANGED <<exc, terminate, bgVars, publishes, out, inputs, lastCall, interrupts, intAt>>

\* print("Disconnected"); the script ends, re-raising what it unwinds with.
PrintDisconnected ==
    /\ pc = "print_disconnected"
    /\ out' = Append(out, "disconnected")
    /\ pc' = "done"
    /\ UNCHANGED <<exc, conn, terminate, bgVars, publishes, inputs, lastCall, interrupts, intAt, disconnects>>

\* ------------------------------------------------------ network loop thread
\* The loop thread is a daemon: it runs only while the script does.
LoopThreadRuns == pc # "done"

\* CONNACK arrives: on_connect(client, userdata, flags, rc) starts and
\* prints the result code.
Connack ==
    /\ LoopThreadRuns
    /\ bg = "idle"
    /\ conn = "pending"
    /\ connacks < MaxConnacks
    /\ \E rc \in Rcs :
         /\ conn' = IF rc = 0 THEN "accepted" ELSE "refused"
         /\ lastRc' = rc
         /\ firstRc' = IF connacks = 0 THEN rc ELSE firstRc
    /\ connacks' = connacks + 1
    /\ bg' = "sub_state"
    /\ UNCHANGED <<terminate, subscribeCalls, subscribed, delivered, rendered,
                   crashMsg, mainVars>>

SubscribeTopic(at) == CASE at = "sub_state" -> StateTopic
                        [] at = "sub_availability" -> AvailabilityTopic
                        [] at = "sub_bridge" -> BridgeStatusTopic

AfterSubscribe(at) == CASE at = "sub_state" -> "sub_availability"
                        [] at = "sub_availability" -> "sub_bridge"
                        [] at = "sub_bridge" -> "idle"

\* on_connect: the three client.subscribe calls, one after the other,
\* whatever rc is.  The broker takes a subscription only on an accepted
\* connection.
OnConnectSubscribe ==
    /\ LoopThreadRuns
    /\ bg \in OnConnectPcs
    /\ subscribeCalls' = Append(subscribeCalls,
                                [topic |-> SubscribeTopic(bg), rc |-> lastRc])
    /\ subscribed' = IF conn = "accepted"
                     THEN subscribed \cup {SubscribeTopic(bg)}
                     ELSE subscribed
    /\ bg' = AfterSubscribe(bg)
    /\ UNCHANGED <<conn, terminate, connacks, firstRc, lastRc, delivered,
                   rendered, crashMsg, mainVars>>

\* The connection was refused or lost: the loop connects again (a clean
\* session: the broker forgets the subscriptions).
Reconnect ==
    /\ LoopThreadRuns
    /\ bg = "idle"
    /\ ~terminate
    /\ conn \in {"accepted", "refused"}
    /\ connacks < MaxConnacks
    /\ conn' = "pending"
    /\ subscribed' = {}
    /\ UNCHANGED <<bg, terminate, connacks, firstRc, lastRc, subscribeCalls,
                   delivered, rendered, crashMsg, mainVars>>

\* A message on a subscribed topic arrives and the loop calls on_message.
\* An exception on_message raises is not caught: it ends the loop thread.
Deliver(msg) ==
    /\ LoopThreadRuns
    /\ bg = "idle"
    /\ conn = "accepted"
    /\ msg.topic \in subscribed
    /\ delivered < MaxMessages
    /\ delivered' = delivered + 1
    /\ LET r == on_message(msg)
       IN IF r.raised
          THEN /\ bg' = "crashed"
               /\ crashMsg' = msg
               /\ rendered' = rendered
          ELSE /\ bg' = bg
               /\ crashMsg' = crashMsg
               /\ rendered' = r.shown
    /\ UNCHANGED <<conn, terminate, connacks, firstRc, lastRc, subscribeCalls,
                   subscribed, mainVars>>

Dispatch == \E msg \in Messages : Deliver(msg)

\* The loop sees the request of loop_stop() and returns.
LoopExit ==
    /\ LoopThreadRuns
    /\ bg = "idle"
    /\ terminate
    /\ bg' = "stopped"
    /\ UNCHANGED <<conn, terminate, connacks, firstRc, lastRc, subscribeCalls,
                   subscribed, delivered, rendered, crashMsg, mainVars>>

Next ==
    \/ Connect
    \/ LoopStart
    \/ Banner
    \/ Menu
    \/ ReadChoice
    \/ ReadAmperes
    \/ Interrupt
    \/ ExceptHandler
    \/ LoopStop
    \/ Join
    \/ Disconnect
    \/ PrintDisconnected
    \/ Connack
    \/ OnConnectSubscribe
    \/ Reconnect
    \/ Dispatch
    \/ LoopExit

Spec == Init /\ [][Next]_vars

\* ------------------------------------------------------------------ claims
CommandCalled(fn) == lastCall'.n = lastCall.n + 1 /\ lastCall'.fn = fn

ExpectedPublish(obj) ==
    [topic |-> <<"fossibot", "7C2C67AB5F0E", "command">>,
     payload |-> [json |-> TRUE, obj |-> obj],
     qos |-> 1]

SubscriptionTopics == { <<"fossibot", "7C2C67AB5F0E", "state">>,
                        <<"fossibot", "7C2C67AB5F0E", "availability">>,
                        <<"fossibot", "bridge", "status">> }

\* C1: a call of set_charging_current with amperes outside [1,20] makes no
\* publish (nor any other call on the client) and prints exactly one error
\* message.
C1_OutOfRangeRejected ==
    [][ (CommandCalled("set_charging_current")
           /\ lastCall'.amperes \notin 1..20)
        => /\ publishes' = publishes
           /\ subscribeCalls' = subscribeCalls
           /\ disconnects' = disconnects
           /\ out' = Append(out, "error_range") ]_vars

C1_Witness ==
    /\ lastCall.fn = "set_charging_current"
    /\ lastCall.amperes \in {0, 21, -5}
    /\ publishes = <<>>
    /\ out = <<"error_range">>

\* C2: a call of set_charging_current with amperes in [1,20], both ends
\* included, makes exactly one publish, to fossibot/<mac>/command at QoS 1
\* with payload {"action":"set_charging_current","amperes":amperes}, and
\* prints no error message.
C2_InRangePublished ==
    [][ (CommandCalled("set_charging_current")
           /\ lastCall'.amperes \in 1..20)
        => /\ publishes' = Append(publishes, ExpectedPublish(
                  [action |-> JStr("set_charging_current"),
                   amperes |-> JInt(lastCall'.amperes)]))
           /\ out' = Append(out, "sent_charging_current") ]_vars

C2_Witness ==
    /\ lastCall.fn = "set_charging_current"
    /\ lastCall.amperes \in {1, 20}
    /\ Len(publishes) = 1
    /\ publishes[1].payload.obj.amperes.n = lastCall.amperes
    /\ out = <<"sent_charging_current">>

\* C3: every call of turn_usb_on / turn_usb_off makes exactly one publish,
\* to fossibot/<mac>/command at QoS 1 with payload {"action":"usb_on"} /
\* {"action":"usb_off"}, whatever was received or sent before.
C3_UsbCommandsPublished ==
    [][ /\ CommandCalled("turn_usb_on")
           => publishes' = Append(publishes,
                  ExpectedPublish([action |-> JStr("usb_on")]))
        /\ CommandCalled("turn_usb_off")
           => publishes' = Append(publishes,
                  ExpectedPublish([action |-> JStr("usb_off")])) ]_vars

C3_Witness ==
    /\ lastCall.fn = "turn_usb_off"
    /\ Len(publishes) = 2
    /\ publishes[1] = publishes[2]
    /\ rendered.kind = "state"
    /\ rendered.usb = "ON"

\* C4: a malformed (non-JSON) payload on a topic ending in /state does not
\* end the dispatch loop: the loop thread is not brought down by it, and a
\* well-formed state message arriving afterwards is still dispatched.
C4_MalformedStateDiscarded ==
    /\ bg = "crashed"
       => ~(EndsWith(crashMsg.topic, "state") /\ ~crashMsg.payload.json)
    /\ (/\ EndsWith(crashMsg.topic, "state")
        /\ ~crashMsg.payload.json
        /\ pc \in LoopPcs
        /\ conn = "accepted"
        /\ StateTopic \in subscribed
        /\ delivered < MaxMessages)
       => ENABLED Deliver([topic |-> StateTopic,
                           payload |-> JsonDumps(ValidState)])

\* C5: once the connection is acquired, the script never ends without
\* having stopped the loop thread and called disconnect.
C5_ReleasedOnEveryExit ==
    (pc = "done" /\ conn # "none")
    => (terminate /\ LoopThreadEnded /\ disconnects >= 1)

\* C6: when the (one) interrupt arrives at the command prompt or the
\* amperes prompt, the script ends having called disconnect exactly once
\* and printed the termination confirmation, and after the disconnect no
\* publish and no subscribe is made by either thread.
C6_InterruptShutsDownOnce ==
    [][ /\ disconnects' <= 1
        /\ (pc' = "done" /\ intAt' \in PromptPcs /\ interrupts' = 1)
           => /\ disconnects' = 1
              /\ Len(out') >= 2
              /\ out'[Len(out') - 1] = "shutting_down"
              /\ out'[Len(out')] = "disconnected"
        /\ (intAt \in PromptPcs /\ disconnects >= 1)
           => /\ publishes' = publishes
              /\ subscribeCalls' = subscribeCalls ]_vars

C6_Witness ==
    /\ pc = "done"
    /\ intAt = "amperes"
    /\ interrupts = 1
    /\ disconnects = 1
    /\ Len(subscribeCalls) = 3
    /\ bg = "stopped"

\* C7: when the connection fails at startup (connect raises, or the first
\* CONNACK refuses it) the client does not proceed to the interactive loop:
\* no menu, no input read, no command published.
C7_NoLoopAfterFailedConnect ==
    /\ (pc = "done" /\ conn = "none")
       => (inputs = 0 /\ publishes = <<>> /\ out = <<>>)
    /\ firstRc \notin {-1, 0} => pc \notin LoopPcs

\* C8: while the main thread waits for a line of input and the connection
\* is up, an arriving message can be dispatched; and whatever the loop
\* thread is doing, the main thread can read its line.
C8_NeitherBlocksTheOther ==
    /\ (/\ pc \in PromptPcs
        /\ conn = "accepted"
        /\ bg \notin OnConnectPcs
        /\ delivered < MaxMessages)
       => \A msg \in Messages :
            msg.topic \in subscribed => ENABLED Deliver(msg)
    /\ (pc \in PromptPcs /\ inputs < MaxInputs)
       => ENABLED (ReadChoice \/ ReadAmperes)

\* C9: every subscribe call is for one of the three topics and is made for
\* a connect that succeeded (result code 0).
C9_SubscribesOnlyOnSuccess ==
    \A i \in 1..Len(subscribeCalls) :
        /\ subscribeCalls[i].topic \in SubscriptionTopics
        /\ subscribeCalls[i].rc = 0

\* C10: the interactive loop is left only by quit (q/Q at the command
\* prompt) or by an interrupt; every other line, the amperes line included,
\* leads back to the menu.
C10_LoopLeftOnlyByQuitOrInterrupt ==
    [][ /\ (pc \in LoopPcs /\ pc' \notin LoopPcs)
           => \/ interrupts' = interrupts + 1
              \/ pc = "prompt" /\ pc' = "loop_stop" /\ exc' = "none"
        /\ (pc = "amperes" /\ inputs' = inputs + 1) => pc' = "menu" ]_vars

====
